---- MODULE Spec2Model ----
(***************************************************************************)
(* Model of samples/gltf_viewer.cpp: option parsing, source selection,    *)
(* format dispatch, and the setup / animate / gui / cleanup callbacks     *)
(* that the host loop (FilamentApp::run) drives.  Every statement of      *)
(* main, setup and cleanup that changes state is one action; pc is the    *)
(* position of the single controlling thread.  The renderer consumes      *)
(* submitted GPU work asynchronously (RendererConsume).                   *)
(***************************************************************************)
EXTENDS Integers, Sequences, FiniteSets, TLC

(* ---------------- bounds ---------------- *)
MaxOpts == 2
MaxSize == 1
MaxFrames == 1
MaxPending == 1
MaxCleanupCalls == 2

(* ---------------- inputs ---------------- *)
\* One parsed command-line option as getopt_long returns it: the option
\* letter and its argument ("" when the option takes none).  "?" is what
\* getopt_long returns for an unknown option or a missing argument.
Options ==
    { [opt |-> "h", arg |-> ""], [opt |-> "?", arg |-> ""],
      [opt |-> "u", arg |-> ""], [opt |-> "i", arg |-> "envs/other"] }
    \cup { [opt |-> "a", arg |-> v] : v \in {"opengl", "vulkan", "metal", "bogus"} }

RECURSIVE SeqsUpTo(_, _)
SeqsUpTo(S, n) ==
    IF n = 0 THEN { <<>> }
    ELSE LET shorter == SeqsUpTo(S, n - 1)
         IN  shorter \cup { Append(s, x) : s \in { t \in shorter : Len(t) = n - 1 }, x \in S }

\* The positional argument, or none (argc - optind = 0).  When given, the file
\* system entry it names: whether it exists, what the size probe (tellg on a
\* stream opened at the end, -1 when the open failed) returns, how many bytes
\* a read from the start can deliver, its extension, and what the bytes are.
\* With no path the source is the embedded payload, a binary container
\* (content "glb"); a payload the loader rejects is content "garbage".
NoPath(c) ==
    [given |-> FALSE, exists |-> FALSE, size |-> 0, avail |-> 0, ext |-> "", content |-> c]

Paths ==
    { NoPath(c) : c \in {"glb", "garbage"} }
    \cup { [given |-> TRUE, exists |-> FALSE, size |-> -1, avail |-> 0,
            ext |-> e, content |-> "garbage"] : e \in {"glb", "gltf"} }
    \cup { [given |-> TRUE, exists |-> TRUE, size |-> s, avail |-> a,
            ext |-> e, content |-> c] :
              s \in -1 .. MaxSize, a \in 0 .. MaxSize,
              e \in {"glb", "gltf"}, c \in {"glb", "json", "garbage"} }

\* What the resource loader can come back with for the external resources
\* an asset declares.
ResourceOutcomes == {"allFound", "someMissing", "allMissing"}

Resources == {"viewer", "asset", "materials", "loader", "names"}

DefaultBackend == "default"

DEFAULT_IBL == "envs/venetian_crossroads"

VARIABLES
    argv,           \* the options of the command line, in getopt order
    path,           \* the positional argument (element of Paths)
    optind,         \* index of the next option getopt_long will return
    pc,             \* position of the controlling thread
    exitCode,       \* -1 while the process runs, else its exit status
    exitReason,     \* which statement ended the process
    title, backend, iblDirectory,   \* app.config
    materialSource, \* app.materialSource
    warnings,       \* "Unrecognized backend" lines written to std::cerr
    viewer, loader, asset, names,   \* app.* pointers: uninit/live/null/destroyed
    materials,      \* the loader-held material templates: none/live/destroyed
    rel,            \* per resource, how many times it was released
    buffer,         \* the std::vector<uint8_t> of setup: none/allocated/cleared/freed
    bufCapacity,    \* bytes of storage the vector holds
    contentSize,    \* the result of the size probe
    stage,          \* none/parsed/resourcesLoaded/animationReady/sourceReleased
    bound,          \* viewer->setAsset was called
    sampleCount,    \* view sample count
    resMissing,     \* outcome of loading the external resources
    parseCalls,     \* parse entry points called, in order
    calls,          \* recorded lifecycle calls (setup and cleanup steps)
    gpuPending,     \* GPU commands submitted and not yet consumed
    frames, guiCalls,   \* animate / gui invocations so far
    cleanupCalls,   \* invocations of the cleanup callback
    ci,             \* index of the next statement of cleanup
    ub              \* undefined-behaviour events (use of a dead handle)

vars == << argv, path, optind, pc, exitCode, exitReason, title,
           backend, iblDirectory, materialSource, warnings, viewer, loader,
           asset, names, materials, rel, buffer, bufCapacity, contentSize, stage, bound,
           sampleCount, resMissing, parseCalls, calls, gpuPending, frames,
           guiCalls, cleanupCalls, ci, ub >>

cfgVars == << title, backend, iblDirectory, materialSource, warnings >>
inputVars == << argv, path >>
handleVars == << viewer, loader, asset, names, materials, rel >>
assetVars == << buffer, bufCapacity, contentSize, stage, bound, sampleCount, resMissing, parseCalls >>
loopVars == << frames, guiCalls, cleanupCalls, ci >>

\* State after `App app;`: the four pointers are indeterminate, the strings
\* empty, materialSource has its member initializer.
Init ==
    /\ argv \in SeqsUpTo(Options, MaxOpts)
    /\ path \in Paths
    /\ optind = 1
    /\ pc = "main_defaults"
    /\ exitCode = -1
    /\ exitReason = "none"
    /\ title = ""
    /\ backend = DefaultBackend
    /\ iblDirectory = ""
    /\ materialSource = "GENERATE_SHADERS"
    /\ warnings = 0
    /\ viewer = "uninit" /\ loader = "uninit" /\ asset = "uninit" /\ names = "uninit"
    /\ materials = "none"
    /\ rel = [r \in Resources |-> 0]
    /\ buffer = "none"
    /\ bufCapacity = 0
    /\ contentSize = 0
    /\ stage = "none"
    /\ bound = FALSE
    /\ sampleCount = 1
    /\ resMissing = "notLoaded"
    /\ parseCalls = <<>>
    /\ calls = <<>>
    /\ gpuPending = 0
    /\ frames = 0 /\ guiCalls = 0
    /\ cleanupCalls = 0
    /\ ci = 1
    /\ ub = {}

(* ---------------- process exit ---------------- *)
Exit(code, reason) ==
    /\ pc' = "exited"
    /\ exitCode' = code
    /\ exitReason' = reason

Goto(label) ==
    /\ pc' = label
    /\ UNCHANGED << exitCode, exitReason >>

(* ---------------- main: defaults and options ---------------- *)
MainDefaults ==
    /\ pc = "main_defaults"
    /\ title' = "Filament"
    /\ iblDirectory' = DEFAULT_IBL
    /\ Goto("args")
    /\ UNCHANGED << backend, materialSource, warnings, optind >>
    /\ UNCHANGED << inputVars, handleVars, assetVars, loopVars, calls, gpuPending, ub >>

\* Variant: the metal branch assigns the vulkan backend.
ApiBackendSwapped(arg, cur) ==
    IF arg = "opengl" THEN "opengl"
    ELSE IF arg = "vulkan" THEN "vulkan"
    ELSE IF arg = "metal" THEN "vulkan"
    ELSE cur

\* Variant: an unrecognized value puts the backend back to the default.
ApiBackendResets(arg, cur) ==
    IF arg = "opengl" THEN "opengl"
    ELSE IF arg = "vulkan" THEN "vulkan"
    ELSE IF arg = "metal" THEN "metal"
    ELSE DefaultBackend

\* case 'a': the three recognized strings set the backend, anything else
\* leaves it as it is.
ApiBackend(arg, cur) ==
    IF arg = "opengl" THEN "opengl"
    ELSE IF arg = "vulkan" THEN "vulkan"
    ELSE IF arg = "metal" THEN "metal"
    ELSE cur

ApiRecognized(arg) == arg \in {"opengl", "vulkan", "metal"}

\* Variant: case 'i' has no break and falls into case 'u'.
HandleOptionFallthrough ==
    /\ pc = "args"
    /\ optind <= Len(argv)
    /\ LET o == argv[optind] IN
       \/ /\ o.opt \in {"h", "?"}
          /\ Exit(0, "usage")
          /\ UNCHANGED << cfgVars, optind >>
       \/ /\ o.opt = "a"
          /\ backend' = ApiBackend(o.arg, backend)
          /\ warnings' = IF ApiRecognized(o.arg) THEN warnings ELSE warnings + 1
          /\ optind' = optind + 1
          /\ Goto("args")
          /\ UNCHANGED << title, iblDirectory, materialSource >>
       \/ /\ o.opt = "i"
          /\ iblDirectory' = o.arg
          /\ materialSource' = "LOAD_UBERSHADERS"
          /\ optind' = optind + 1
          /\ Goto("args")
          /\ UNCHANGED << title, backend, warnings >>
       \/ /\ o.opt = "u"
          /\ materialSource' = "LOAD_UBERSHADERS"
          /\ optind' = optind + 1
          /\ Goto("args")
          /\ UNCHANGED << title, backend, iblDirectory, warnings >>
    /\ UNCHANGED << inputVars, handleVars, assetVars, loopVars, calls, gpuPending, ub >>

\* One iteration of the getopt_long loop.
HandleOption ==
    /\ pc = "args"
    /\ optind <= Len(argv)
    /\ LET o == argv[optind] IN
       \/ /\ o.opt \in {"h", "?"}            \* default: / case 'h': usage, exit(0)
          /\ Exit(0, "usage")
          /\ UNCHANGED << cfgVars, optind >>
       \/ /\ o.opt = "a"
          /\ backend' = ApiBackend(o.arg, backend)
          /\ warnings' = IF ApiRecognized(o.arg) THEN warnings ELSE warnings + 1
          /\ optind' = optind + 1
          /\ Goto("args")
          /\ UNCHANGED << title, iblDirectory, materialSource >>
       \/ /\ o.opt = "i"
          /\ iblDirectory' = o.arg
          /\ optind' = optind + 1
          /\ Goto("args")
          /\ UNCHANGED << title, backend, materialSource, warnings >>
       \/ /\ o.opt = "u"
          /\ materialSource' = "LOAD_UBERSHADERS"
          /\ optind' = optind + 1
          /\ Goto("args")
          /\ UNCHANGED << title, backend, iblDirectory, warnings >>
    /\ UNCHANGED << inputVars, handleVars, assetVars, loopVars, calls, gpuPending, ub >>

\* Variant: main does not test filename.exists().
MainCheckPathNoExists ==
    /\ pc = "args"
    /\ optind > Len(argv)
    /\ Goto("setup_names")
    /\ UNCHANGED << cfgVars, optind >>
    /\ UNCHANGED << inputVars, handleVars, assetVars, loopVars, calls, gpuPending, ub >>

\* getopt_long returned -1; main looks at the positional argument.
MainCheckPath ==
    /\ pc = "args"
    /\ optind > Len(argv)
    /\ IF path.given /\ ~path.exists
         THEN Exit(1, "notfound")
         ELSE Goto("setup_names")
    /\ UNCHANGED << cfgVars, optind >>
    /\ UNCHANGED << inputVars, handleVars, assetVars, loopVars, calls, gpuPending, ub >>

(* ---------------- setup ---------------- *)
Log(c) == calls' = Append(calls, c)

\* Dereferencing a pointer that is not live is undefined behaviour; the
\* event is recorded in ub.
Deref(h, what) == IF h = "live" THEN {} ELSE {what}

SetupNames ==
    /\ pc = "setup_names"
    /\ names' = "live"
    /\ Log("newNames")
    /\ Goto("setup_viewer")
    /\ UNCHANGED << viewer, loader, asset, materials, rel >>
    /\ UNCHANGED << inputVars, cfgVars, optind, assetVars, loopVars, gpuPending, ub >>

SetupViewer ==
    /\ pc = "setup_viewer"
    /\ viewer' = "live"
    /\ Log("newViewer")
    /\ Goto("setup_loader")
    /\ UNCHANGED << names, loader, asset, materials, rel >>
    /\ UNCHANGED << inputVars, cfgVars, optind, assetVars, loopVars, gpuPending, ub >>

\* Variant: setup switches the material source before creating the loader.
SetupLoaderForcesUbershader ==
    /\ pc = "setup_loader"
    /\ loader' = "live"
    /\ materials' = "live"
    /\ materialSource' = "LOAD_UBERSHADERS"
    /\ Log("createLoader")
    /\ Goto("setup_source")
    /\ ub' = ub \cup Deref(names, "names")
    /\ UNCHANGED << names, viewer, asset, rel >>
    /\ UNCHANGED << title, backend, iblDirectory, warnings >>
    /\ UNCHANGED << inputVars, optind, assetVars, loopVars, gpuPending >>

\* AssetLoader::create: the loader and the material provider it owns.
SetupLoader ==
    /\ pc = "setup_loader"
    /\ loader' = "live"
    /\ materials' = "live"
    /\ Log("createLoader")
    /\ Goto("setup_source")
    /\ ub' = ub \cup Deref(names, "names")
    /\ UNCHANGED << names, viewer, asset, rel >>
    /\ UNCHANGED << inputVars, cfgVars, optind, assetVars, loopVars, gpuPending >>

\* Variant: dispatch on what the bytes are instead of on the extension.
ParseEntryByContent(p) ==
    IF ~p.given THEN "binary"
    ELSE IF p.content = "glb" THEN "binary" ELSE "json"

\* Which parse entry point setup calls for a source.
ParseEntry(p) ==
    IF ~p.given THEN "binary"
    ELSE IF p.ext = "glb" THEN "binary" ELSE "json"

\* Whether the loader returns an asset: a binary container parses through the
\* binary entry point only, a JSON document through the JSON one only.
ParseOk(entry, content) ==
    \/ entry = "binary" /\ content = "glb"
    \/ entry = "json" /\ content = "json"

\* filename.isEmpty(): the embedded payload goes to createAssetFromBinary.
SetupParseEmbedded ==
    /\ pc = "setup_source"
    /\ ~path.given
    /\ LET entry == ParseEntry(path)
           ok == ParseOk(entry, path.content) IN
       /\ parseCalls' = Append(parseCalls, entry)
       /\ asset' = IF ok THEN "live" ELSE "null"
       /\ stage' = IF ok THEN "parsed" ELSE stage
    /\ Log("parse")
    /\ Goto("setup_check")
    /\ ub' = ub \cup Deref(loader, "loader")
    /\ UNCHANGED << names, viewer, loader, materials, rel >>
    /\ UNCHANGED << buffer, bufCapacity, contentSize, bound, sampleCount, resMissing >>
    /\ UNCHANGED << inputVars, cfgVars, optind, loopVars, gpuPending >>

\* Variant: the size test is contentSize < 0, so an empty file is read.
SetupProbeStrict ==
    /\ pc = "setup_source"
    /\ path.given
    /\ contentSize' = path.size
    /\ Log("probe")
    /\ IF path.size < 0 THEN Exit(1, "probe") ELSE Goto("setup_read")
    /\ UNCHANGED << buffer, bufCapacity, stage, bound, sampleCount, resMissing, parseCalls >>
    /\ UNCHANGED << inputVars, cfgVars, optind, handleVars, loopVars, gpuPending, ub >>

\* getFileSize and the contentSize <= 0 test.
SetupProbe ==
    /\ pc = "setup_source"
    /\ path.given
    /\ contentSize' = path.size
    /\ Log("probe")
    /\ IF path.size <= 0 THEN Exit(1, "probe") ELSE Goto("setup_read")
    /\ UNCHANGED << buffer, bufCapacity, stage, bound, sampleCount, resMissing, parseCalls >>
    /\ UNCHANGED << inputVars, cfgVars, optind, handleVars, loopVars, gpuPending, ub >>

\* Variant: the result of the read is not tested.
SetupReadUnchecked ==
    /\ pc = "setup_read"
    /\ buffer' = "allocated"
    /\ bufCapacity' = contentSize
    /\ Log("read")
    /\ Goto("setup_parse")
    /\ UNCHANGED << contentSize, stage, bound, sampleCount, resMissing, parseCalls >>
    /\ UNCHANGED << inputVars, cfgVars, optind, handleVars, loopVars, gpuPending, ub >>

\* The buffer of contentSize bytes and the read of exactly that many.
SetupRead ==
    /\ pc = "setup_read"
    /\ buffer' = "allocated"
    /\ bufCapacity' = contentSize
    /\ Log("read")
    /\ IF path.avail < contentSize THEN Exit(1, "read") ELSE Goto("setup_parse")
    /\ UNCHANGED << contentSize, stage, bound, sampleCount, resMissing, parseCalls >>
    /\ UNCHANGED << inputVars, cfgVars, optind, handleVars, loopVars, gpuPending, ub >>

SetupParseFile ==
    /\ pc = "setup_parse"
    /\ LET entry == ParseEntry(path)
           ok == ParseOk(entry, path.content) IN
       /\ parseCalls' = Append(parseCalls, entry)
       /\ asset' = IF ok THEN "live" ELSE "null"
       /\ stage' = IF ok THEN "parsed" ELSE stage
    /\ Log("parse")
    /\ Goto("setup_free")
    /\ ub' = ub \cup Deref(loader, "loader")
    /\ UNCHANGED << names, viewer, loader, materials, rel >>
    /\ UNCHANGED << buffer, bufCapacity, contentSize, bound, sampleCount, resMissing >>
    /\ UNCHANGED << inputVars, cfgVars, optind, loopVars, gpuPending >>

\* Variant: buffer.clear() without shrink_to_fit(): the storage is kept.
SetupFreeBufferClearOnly ==
    /\ pc = "setup_free"
    /\ buffer' = "cleared"
    /\ bufCapacity' = bufCapacity
    /\ Log("freeBuffer")
    /\ Goto("setup_check")
    /\ UNCHANGED << contentSize, stage, bound, sampleCount, resMissing, parseCalls >>
    /\ UNCHANGED << inputVars, cfgVars, optind, handleVars, loopVars, gpuPending, ub >>

\* buffer.clear(); buffer.shrink_to_fit();
SetupFreeBuffer ==
    /\ pc = "setup_free"
    /\ buffer' = "freed"
    /\ bufCapacity' = 0
    /\ Log("freeBuffer")
    /\ Goto("setup_check")
    /\ UNCHANGED << contentSize, stage, bound, sampleCount, resMissing, parseCalls >>
    /\ UNCHANGED << inputVars, cfgVars, optind, handleVars, loopVars, gpuPending, ub >>

\* Variant: a null asset makes setup try the source again.
SetupCheckAssetRetry ==
    /\ pc = "setup_check"
    /\ IF asset = "null" THEN Goto("setup_source") ELSE Goto("setup_resources")
    /\ UNCHANGED << inputVars, cfgVars, optind, handleVars, assetVars, loopVars,
                    calls, gpuPending, ub >>

\* Variant: a null asset does not end setup.
SetupCheckAssetNoExit ==
    /\ pc = "setup_check"
    /\ Goto("setup_resources")
    /\ UNCHANGED << inputVars, cfgVars, optind, handleVars, assetVars, loopVars,
                    calls, gpuPending, ub >>

\* Variant: a null asset ends setup by running the cleanup callback.
SetupCheckAssetCleansUp ==
    /\ pc = "setup_check"
    /\ IF asset = "null" THEN Goto("cleanup") ELSE Goto("setup_resources")
    /\ UNCHANGED << inputVars, cfgVars, optind, handleVars, assetVars, loopVars,
                    calls, gpuPending, ub >>

\* if (!app.asset) exit(1)
SetupCheckAsset ==
    /\ pc = "setup_check"
    /\ IF asset = "null" THEN Exit(1, "parse") ELSE Goto("setup_resources")
    /\ UNCHANGED << inputVars, cfgVars, optind, handleVars, assetVars, loopVars,
                    calls, gpuPending, ub >>

Min(a, b) == IF a < b THEN a ELSE b

\* Variant: setup gives up when no external resource was found.
SetupLoadResourcesFatal ==
    /\ pc = "setup_resources"
    /\ \E o \in ResourceOutcomes :
          /\ resMissing' = o
          /\ IF o = "allMissing" THEN Exit(1, "resources") ELSE Goto("setup_animator")
    /\ stage' = "resourcesLoaded"
    /\ gpuPending' = Min(gpuPending + 1, MaxPending)
    /\ Log("loadResources")
    /\ ub' = ub \cup Deref(asset, "asset")
    /\ UNCHANGED << buffer, bufCapacity, contentSize, bound, sampleCount, parseCalls >>
    /\ UNCHANGED << inputVars, cfgVars, optind, handleVars, loopVars >>

\* Variant: the source hierarchy is released without extracting the animator.
SetupLoadResourcesSkipsAnimator ==
    /\ pc = "setup_resources"
    /\ \E o \in ResourceOutcomes : resMissing' = o
    /\ stage' = "resourcesLoaded"
    /\ gpuPending' = Min(gpuPending + 1, MaxPending)
    /\ Log("loadResources")
    /\ Goto("setup_release")
    /\ ub' = ub \cup Deref(asset, "asset")
    /\ UNCHANGED << buffer, bufCapacity, contentSize, bound, sampleCount, parseCalls >>
    /\ UNCHANGED << inputVars, cfgVars, optind, handleVars, loopVars >>

\* ResourceLoader(...).loadResources(app.asset): any of the external
\* resources may be missing; the loader uploads what it found and returns.
SetupLoadResources ==
    /\ pc = "setup_resources"
    /\ \E o \in ResourceOutcomes : resMissing' = o
    /\ stage' = "resourcesLoaded"
    /\ gpuPending' = Min(gpuPending + 1, MaxPending)
    /\ Log("loadResources")
    /\ Goto("setup_animator")
    /\ ub' = ub \cup Deref(asset, "asset")
    /\ UNCHANGED << buffer, bufCapacity, contentSize, bound, sampleCount, parseCalls >>
    /\ UNCHANGED << inputVars, cfgVars, optind, handleVars, loopVars >>

SetupGetAnimator ==
    /\ pc = "setup_animator"
    /\ stage' = "animationReady"
    /\ Log("getAnimator")
    /\ Goto("setup_release")
    /\ ub' = ub \cup Deref(asset, "asset")
    /\ UNCHANGED << buffer, bufCapacity, contentSize, bound, sampleCount, resMissing, parseCalls >>
    /\ UNCHANGED << inputVars, cfgVars, optind, handleVars, loopVars, gpuPending >>

SetupReleaseSource ==
    /\ pc = "setup_release"
    /\ stage' = "sourceReleased"
    /\ Log("releaseSourceData")
    /\ Goto("setup_setAsset")
    /\ ub' = ub \cup Deref(asset, "asset")
    /\ UNCHANGED << buffer, bufCapacity, contentSize, bound, sampleCount, resMissing, parseCalls >>
    /\ UNCHANGED << inputVars, cfgVars, optind, handleVars, loopVars, gpuPending >>

SetupSetAsset ==
    /\ pc = "setup_setAsset"
    /\ bound' = TRUE
    /\ Log("setAsset")
    /\ Goto("setup_sampleCount")
    /\ ub' = ub \cup Deref(viewer, "viewer")
    /\ UNCHANGED << buffer, bufCapacity, contentSize, stage, sampleCount, resMissing, parseCalls >>
    /\ UNCHANGED << inputVars, cfgVars, optind, handleVars, loopVars, gpuPending >>

\* view->setSampleCount(4); setup returns and the host loop starts.
SetupSampleCount ==
    /\ pc = "setup_sampleCount"
    /\ sampleCount' = 4
    /\ Log("setupDone")
    /\ Goto("running")
    /\ UNCHANGED << buffer, bufCapacity, contentSize, stage, bound, resMissing, parseCalls >>
    /\ UNCHANGED << inputVars, cfgVars, optind, handleVars, loopVars, gpuPending, ub >>

(* ---------------- the host loop ---------------- *)
\* Variant: animate waits until the renderer has drained its queue.
AnimateWaits ==
    /\ pc = "running"
    /\ frames < MaxFrames
    /\ gpuPending = 0
    /\ frames' = frames + 1
    /\ ub' = ub \cup Deref(viewer, "viewer")
    /\ UNCHANGED << pc, exitCode, exitReason, guiCalls, cleanupCalls, ci >>
    /\ UNCHANGED << inputVars, cfgVars, optind, handleVars, assetVars, calls, gpuPending >>

Animate ==
    /\ pc = "running"
    /\ frames < MaxFrames
    /\ frames' = frames + 1
    /\ ub' = ub \cup Deref(viewer, "viewer")
    /\ UNCHANGED << pc, exitCode, exitReason, guiCalls, cleanupCalls, ci >>
    /\ UNCHANGED << inputVars, cfgVars, optind, handleVars, assetVars, calls, gpuPending >>

Gui ==
    /\ pc = "running"
    /\ guiCalls < MaxFrames
    /\ guiCalls' = guiCalls + 1
    /\ ub' = ub \cup Deref(viewer, "viewer")
    /\ UNCHANGED << pc, exitCode, exitReason, frames, cleanupCalls, ci >>
    /\ UNCHANGED << inputVars, cfgVars, optind, handleVars, assetVars, calls, gpuPending >>

\* The host renders a frame: commands are queued for the renderer.
Render ==
    /\ pc = "running"
    /\ gpuPending < MaxPending
    /\ gpuPending' = gpuPending + 1
    /\ UNCHANGED << pc, exitCode, exitReason >>
    /\ UNCHANGED << inputVars, cfgVars, optind, handleVars, assetVars, loopVars, calls, ub >>

\* The renderer executes one queued command, at any time while the process
\* is alive.
RendererConsume ==
    /\ pc \notin {"exited", "crashed"}
    /\ gpuPending > 0
    /\ gpuPending' = gpuPending - 1
    /\ UNCHANGED << pc, exitCode, exitReason >>
    /\ UNCHANGED << inputVars, cfgVars, optind, handleVars, assetVars, loopVars, calls, ub >>

\* The host's shutdown signal: the loop ends and cleanup is invoked.
HostShutdown ==
    /\ pc = "running"
    /\ cleanupCalls' = cleanupCalls + 1
    /\ ci' = 1
    /\ Goto("cleanup")
    /\ UNCHANGED << frames, guiCalls >>
    /\ UNCHANGED << inputVars, cfgVars, optind, handleVars, assetVars, calls, gpuPending, ub >>

(* ---------------- cleanup ---------------- *)
\* Variant: the loader is destroyed before the asset.
CleanupOrderLoaderFirst ==
    << "fence", "deleteViewer", "destroyLoader", "destroyAsset",
       "destroyMaterials", "deleteNames" >>

\* Variant: the loader is destroyed before its materials.
CleanupOrderLoaderEarly ==
    << "fence", "deleteViewer", "destroyAsset", "destroyLoader",
       "destroyMaterials", "deleteNames" >>

\* Variant: destroyMaterials is never called.
CleanupOrderNoMaterials ==
    << "fence", "deleteViewer", "destroyAsset", "destroyLoader", "deleteNames" >>

\* The statements of the cleanup lambda, in program order.
CleanupOrder ==
    << "fence", "deleteViewer", "destroyAsset", "destroyMaterials",
       "destroyLoader", "deleteNames" >>

AtCleanup(stmt) ==
    /\ pc = "cleanup"
    /\ ci <= Len(CleanupOrder)
    /\ CleanupOrder[ci] = stmt

CleanupAdvance ==
    /\ ci' = ci + 1
    /\ Goto("cleanup")
    /\ UNCHANGED << frames, guiCalls, cleanupCalls >>

\* delete p: releases a live object, is a no-op on nullptr, and is undefined
\* on an indeterminate or already deleted pointer.  The pointer keeps its
\* value (it dangles).
Deleted(h) == IF h = "live" THEN "destroyed" ELSE h
DeleteCount(h) == IF h = "null" THEN 0 ELSE 1
DeleteUb(h, what) == IF h \in {"live", "null"} THEN {} ELSE {what}

\* Variant: the fence is created but not waited for.
CleanupFenceNoWait ==
    /\ AtCleanup("fence")
    /\ Log("fence")
    /\ CleanupAdvance
    /\ UNCHANGED << inputVars, cfgVars, optind, handleVars, assetVars, gpuPending, ub >>

\* Fence::waitAndDestroy(engine->createFence()): returns once every command
\* submitted before it has been executed.
CleanupFence ==
    /\ AtCleanup("fence")
    /\ gpuPending = 0
    /\ Log("fence")
    /\ CleanupAdvance
    /\ UNCHANGED << inputVars, cfgVars, optind, handleVars, assetVars, gpuPending, ub >>

CleanupDeleteViewer ==
    /\ AtCleanup("deleteViewer")
    /\ viewer' = Deleted(viewer)
    /\ rel' = [rel EXCEPT !["viewer"] = @ + DeleteCount(viewer)]
    /\ ub' = ub \cup DeleteUb(viewer, "viewer")
    /\ Log("deleteViewer")
    /\ CleanupAdvance
    /\ UNCHANGED << loader, asset, names, materials >>
    /\ UNCHANGED << inputVars, cfgVars, optind, assetVars, gpuPending >>

\* app.loader->destroyAsset(app.asset)
CleanupDestroyAsset ==
    /\ AtCleanup("destroyAsset")
    /\ asset' = Deleted(asset)
    /\ rel' = [rel EXCEPT !["asset"] = @ + DeleteCount(asset)]
    /\ ub' = ub \cup Deref(loader, "loader") \cup DeleteUb(asset, "asset")
    /\ Log("destroyAsset")
    /\ CleanupAdvance
    /\ UNCHANGED << viewer, loader, names, materials >>
    /\ UNCHANGED << inputVars, cfgVars, optind, assetVars, gpuPending >>

\* app.loader->destroyMaterials()
CleanupDestroyMaterials ==
    /\ AtCleanup("destroyMaterials")
    /\ materials' = Deleted(materials)
    /\ rel' = [rel EXCEPT !["materials"] = @ + (IF materials = "live" THEN 1 ELSE 0)]
    /\ ub' = ub \cup Deref(loader, "loader")
    /\ Log("destroyMaterials")
    /\ CleanupAdvance
    /\ UNCHANGED << viewer, loader, asset, names >>
    /\ UNCHANGED << inputVars, cfgVars, optind, assetVars, gpuPending >>

\* AssetLoader::destroy(&app.loader): deletes the loader and nulls the pointer.
CleanupDestroyLoader ==
    /\ AtCleanup("destroyLoader")
    /\ loader' = "null"
    /\ rel' = [rel EXCEPT !["loader"] = @ + DeleteCount(loader)]
    /\ ub' = ub \cup DeleteUb(loader, "loader")
    /\ Log("destroyLoader")
    /\ CleanupAdvance
    /\ UNCHANGED << viewer, asset, names, materials >>
    /\ UNCHANGED << inputVars, cfgVars, optind, assetVars, gpuPending >>

CleanupDeleteNames ==
    /\ AtCleanup("deleteNames")
    /\ names' = Deleted(names)
    /\ rel' = [rel EXCEPT !["names"] = @ + DeleteCount(names)]
    /\ ub' = ub \cup DeleteUb(names, "names")
    /\ Log("deleteNames")
    /\ CleanupAdvance
    /\ UNCHANGED << viewer, loader, asset, materials >>
    /\ UNCHANGED << inputVars, cfgVars, optind, assetVars, gpuPending >>

\* cleanup returns to the host, run returns to main.
CleanupReturn ==
    /\ pc = "cleanup"
    /\ ci > Len(CleanupOrder)
    /\ Goto("main_return")
    /\ UNCHANGED << inputVars, cfgVars, optind, handleVars, assetVars, loopVars,
                    calls, gpuPending, ub >>

\* return 0;
MainReturn ==
    /\ pc = "main_return"
    /\ Exit(0, "normal")
    /\ UNCHANGED << inputVars, cfgVars, optind, handleVars, assetVars, loopVars,
                    calls, gpuPending, ub >>

\* A harness that invokes the cleanup callback again on the same App.
CleanupAgain ==
    /\ pc = "main_return"
    /\ cleanupCalls < MaxCleanupCalls
    /\ cleanupCalls' = cleanupCalls + 1
    /\ ci' = 1
    /\ Goto("cleanup")
    /\ UNCHANGED << frames, guiCalls >>
    /\ UNCHANGED << inputVars, cfgVars, optind, handleVars, assetVars, calls, gpuPending, ub >>

\* Once undefined behaviour has happened the process may die at any point.
Crash ==
    /\ ub # {}
    /\ pc \notin {"exited", "crashed"}
    /\ pc' = "crashed"
    /\ exitCode' = 139
    /\ exitReason' = "crash"
    /\ UNCHANGED << inputVars, cfgVars, optind, handleVars, assetVars, loopVars,
                    calls, gpuPending, ub >>

Setup ==
    \/ SetupNames \/ SetupViewer \/ SetupLoader
    \/ SetupParseEmbedded \/ SetupProbe \/ SetupRead \/ SetupParseFile
    \/ SetupFreeBuffer \/ SetupCheckAsset \/ SetupLoadResources
    \/ SetupGetAnimator \/ SetupReleaseSource \/ SetupSetAsset \/ SetupSampleCount

Cleanup ==
    \/ CleanupFence \/ CleanupDeleteViewer \/ CleanupDestroyAsset
    \/ CleanupDestroyMaterials \/ CleanupDestroyLoader \/ CleanupDeleteNames
    \/ CleanupReturn

Next ==
    \/ MainDefaults
    \/ HandleOption
    \/ MainCheckPath
    \/ Setup
    \/ Animate \/ Gui \/ Render \/ RendererConsume \/ HostShutdown
    \/ Cleanup
    \/ MainReturn

Spec == Init /\ [][Next]_vars

\* The same program under a harness that may invoke cleanup a second time.
NextTwice == Next \/ CleanupAgain \/ Crash

SpecTwice == Init /\ [][NextTwice]_vars

TypeOK ==
    /\ pc \in {"main_defaults", "args", "setup_names", "setup_viewer", "setup_loader",
               "setup_source", "setup_read", "setup_parse", "setup_free", "setup_check",
               "setup_resources", "setup_animator", "setup_release", "setup_setAsset",
               "setup_sampleCount", "running", "cleanup", "main_return", "exited", "crashed"}
    /\ exitCode \in {-1, 0, 1, 139}
    /\ gpuPending \in 0 .. MaxPending
    /\ \A r \in Resources : rel[r] \in 0 .. MaxCleanupCalls

(* ======================= properties ======================= *)
InCalls(c) == \E i \in DOMAIN calls : calls[i] = c

\* c occurs in the recorded calls and d, wherever it occurs, comes later
Before(c, d) ==
    \A j \in DOMAIN calls : calls[j] = d => \E i \in 1 .. (j - 1) : calls[i] = c

DestroyCalls ==
    {"deleteViewer", "destroyAsset", "destroyMaterials", "destroyLoader", "deleteNames"}

CleanupLog == SelectSeq(calls, LAMBDA c : c \in DestroyCalls \cup {"fence"})

\* C1: whenever a destroy step of cleanup has run, the fence wait came first,
\* and no resource is released while submitted GPU work is still pending.
C1_BarrierBeforeDestroy ==
    /\ \A r \in Resources : rel[r] > 0 => gpuPending = 0
    /\ \A d \in DestroyCalls : Before("fence", d)
    /\ \A r \in Resources : rel[r] > 0 => InCalls("fence")

\* cleanup has finished after frames were rendered
C1_Witness ==
    /\ pc = "main_return"
    /\ frames > 0
    /\ \A r \in Resources : rel[r] = 1
    /\ InCalls("fence")

\* C2: the cleanup steps happen in the order fence, viewer, asset, materials,
\* loader, NameRegistry; the loader is live when destroyAsset and
\* destroyMaterials go through it, and the registry outlives loader and viewer.
C2_CleanupTotalOrder ==
    LET expected == << "fence", "deleteViewer", "destroyAsset", "destroyMaterials",
                       "destroyLoader", "deleteNames" >>
    IN  /\ Len(CleanupLog) <= Len(expected)
        /\ CleanupLog = SubSeq(expected, 1, Len(CleanupLog))
        /\ pc \in {"main_return", "exited"} /\ cleanupCalls > 0 => CleanupLog = expected
        /\ rel["asset"] > 0 => rel["viewer"] > 0
        /\ rel["materials"] > 0 => rel["asset"] > 0
        /\ rel["loader"] > 0 => rel["materials"] > 0
        /\ rel["names"] > 0 => rel["loader"] > 0 /\ rel["viewer"] > 0
        /\ (rel["asset"] > 0 \/ rel["materials"] > 0) /\ rel["loader"] = 0 => loader = "live"
        /\ "loader" \notin ub

\* materials are released and the loader is still live
C2_Witness ==
    /\ pc = "cleanup"
    /\ rel["materials"] = 1
    /\ rel["loader"] = 0
    /\ loader = "live"
    /\ names = "live"

\* C3: a run with a single cleanup invocation releases viewer, asset,
\* materials, loader and NameRegistry exactly once each by the time it ends.
C3_ReleasedExactlyOnce ==
    /\ \A r \in Resources : rel[r] <= 1
    /\ (pc \in {"main_return", "exited"} /\ InCalls("setupDone")) =>
          /\ cleanupCalls = 1
          /\ \A r \in Resources : rel[r] = 1
          /\ viewer = "destroyed" /\ asset = "destroyed" /\ names = "destroyed"
          /\ materials = "destroyed" /\ loader = "null"

C3_Witness ==
    /\ pc = "exited"
    /\ exitReason = "normal"
    /\ cleanupCalls = 1
    /\ \A r \in Resources : rel[r] = 1

\* C4: a second invocation of cleanup releases nothing that was already
\* released and uses no handle that was already destroyed or nulled.
C4_SecondCleanupIsHarmless ==
    /\ \A r \in Resources : rel[r] <= 1
    /\ ub = {}

(* ---- source errors and exit codes ---- *)
HelpRequested == \E i \in DOMAIN argv : argv[i].opt \in {"h", "?"}

BadSource == path.given /\ (~path.exists \/ path.size <= 0)

\* C5 as stated: a missing or empty source always ends the run with exit
\* code 1 and no parse call.
C5_BadSourceExitsOne ==
    BadSource =>
        /\ parseCalls = <<>>
        /\ pc = "exited" => exitCode = 1

\* C5 (amended): with a missing or empty source no parse entry point is ever
\* called and no asset exists, the run never gets past the size probe, and it
\* ends with exit code 1 unless option parsing ended it with the usage text
\* (exit code 0) before the source was examined.
C5_BadSourceNoAsset ==
    BadSource =>
        /\ parseCalls = <<>>
        /\ asset = "uninit"
        /\ stage = "none"
        /\ buffer = "none"
        /\ pc \in {"main_defaults", "args", "setup_names", "setup_viewer",
                   "setup_loader", "setup_source", "exited"}
        /\ pc = "exited" => exitCode = (IF HelpRequested THEN 0 ELSE 1)

\* a zero-length file was probed inside setup and the process exited with 1
C5_Witness ==
    /\ path.given /\ path.exists /\ path.size = 0
    /\ pc = "exited"
    /\ exitCode = 1
    /\ InCalls("probe")

\* What a run must come to, read off its inputs alone.
Outcome ==
    IF HelpRequested THEN "help"
    ELSE IF path.given /\ ~path.exists THEN "missing"
    ELSE IF path.given /\ path.size <= 0 THEN "unreadable"
    ELSE IF path.given /\ path.avail < path.size THEN "shortread"
    ELSE IF path.given /\ path.ext = "glb" /\ path.content # "glb" THEN "parsefail"
    ELSE IF path.given /\ path.ext # "glb" /\ path.content # "json" THEN "parsefail"
    ELSE IF ~path.given /\ path.content # "glb" THEN "parsefail"
    ELSE "normal"

\* C6: the exit code is 0 on help and on normal host-loop exit (setup done,
\* cleanup run), 1 on a missing, unreadable, short-read or unparsable source,
\* and nothing else; a help request wins over any path.
C6_ExitCodeByOutcome ==
    /\ exitCode \in {-1, 0, 1}
    /\ pc # "crashed"
    /\ pc = "exited" =>
          /\ exitCode = (IF Outcome \in {"help", "normal"} THEN 0 ELSE 1)
          /\ Outcome = "normal" => InCalls("setupDone") /\ CleanupLog # <<>>
          /\ Outcome = "help" => calls = <<>> /\ contentSize = 0
    /\ pc # "exited" => exitCode = -1

\* a short read ended the run with exit code 1
C6_Witness ==
    /\ pc = "exited"
    /\ Outcome = "shortread"
    /\ exitCode = 1

(* ---- options ---- *)
ApiIdx == { i \in DOMAIN argv : argv[i].opt = "a" }

\* C7: with one --api option, once the options are consumed the backend is
\* the named one for opengl, vulkan and metal; for any other value it is
\* still the default and one warning was written; the process exits during
\* option parsing only at a help (or unknown) option.
C7_ApiResolution ==
    /\ (pc # "main_defaults" /\ optind > Len(argv) /\ Cardinality(ApiIdx) = 1) =>
          LET v == argv[CHOOSE i \in ApiIdx : TRUE].arg IN
          IF v \in {"opengl", "vulkan", "metal"}
            THEN backend = v /\ warnings = 0
            ELSE backend = DefaultBackend /\ warnings = 1
    /\ (pc = "exited" /\ optind <= Len(argv)) => argv[optind].opt \in {"h", "?"}

\* an unrecognized backend was given and the run went on into the host loop
C7_Witness ==
    /\ Cardinality(ApiIdx) = 1
    /\ \E i \in ApiIdx : argv[i].arg = "bogus"
    /\ warnings = 1
    /\ backend = DefaultBackend
    /\ pc = "running"

(* ---- format dispatch ---- *)
AfterParse ==
    pc \in {"setup_resources", "setup_animator", "setup_release", "setup_setAsset",
            "setup_sampleCount", "running", "cleanup", "main_return"}

\* C8: at most one parse call per run; it is the binary entry point for the
\* embedded payload (and then nothing is probed or read) and for a file with
\* extension glb, the JSON entry point for any other file, whatever the
\* content; a run that gets past parsing made exactly one call.
C8_FormatDispatch ==
    /\ Len(parseCalls) <= 1
    /\ parseCalls # <<>> =>
          parseCalls[1] = (IF ~path.given \/ path.ext = "glb" THEN "binary" ELSE "json")
    /\ ~path.given =>
          buffer = "none" /\ contentSize = 0 /\ ~InCalls("probe") /\ ~InCalls("read")
    /\ AfterParse => Len(parseCalls) = 1

\* a file named .glb holding JSON went to the binary entry point
C8_Witness ==
    /\ path.given /\ path.ext = "glb" /\ path.content = "json"
    /\ parseCalls = << "binary" >>

(* ---- setup commits or fails ---- *)
\* C9: the asset is bound to the viewer only once it was parsed, its
\* resources loaded, its animator extracted and its source released (and,
\* for a file, the probe and the read succeeded); a run that exits with
\* code 1 never bound it.
C9_NoPartialCommit ==
    /\ bound =>
          /\ asset # "null" /\ asset # "uninit"
          /\ stage = "sourceReleased"
          /\ Len(parseCalls) = 1
          /\ path.given => contentSize > 0 /\ path.avail >= contentSize /\ buffer = "freed"
    /\ \A c \in {"parse", "loadResources", "getAnimator", "releaseSourceData"} :
          Before(c, "setAsset")
    /\ path.given => Before("probe", "setAsset") /\ Before("read", "setAsset")
    /\ exitCode = 1 => ~bound /\ ~InCalls("setAsset")
    /\ exitReason \in {"probe", "read", "parse"} => exitCode = 1 /\ pc = "exited"

\* a parse failure ended setup
C9_Witness ==
    /\ exitReason = "parse"
    /\ asset = "null"
    /\ ~bound

\* C10: once setup was entered the process ends either by a fatal setup
\* error (exit 1, no cleanup step, registry, viewer and loader unreleased)
\* or by host shutdown with the full cleanup; cleanup runs only after setup
\* completed.
C10_TerminationPaths ==
    /\ (pc = "exited" /\ InCalls("newNames")) =>
          \/ /\ exitReason \in {"probe", "read", "parse"}
             /\ exitCode = 1
             /\ CleanupLog = <<>>
             /\ cleanupCalls = 0
             /\ \A r \in Resources : rel[r] = 0
             /\ names = "live" /\ viewer = "live" /\ loader = "live"
             /\ ~InCalls("setupDone")
          \/ /\ exitReason = "normal"
             /\ exitCode = 0
             /\ InCalls("setupDone")
             /\ Len(CleanupLog) = 6
             /\ \A r \in Resources : rel[r] > 0
    /\ (cleanupCalls > 0 \/ CleanupLog # <<>> \/ pc = "cleanup") => InCalls("setupDone")

\* a short read ended setup with everything allocated and nothing released
C10_Witness ==
    /\ pc = "exited"
    /\ exitReason = "read"
    /\ loader = "live"
    /\ CleanupLog = <<>>

(* ---- resources, asset stages, source buffer ---- *)
\* C11: whatever the resource loader found, setup goes on: once resources
\* were loaded the process never exits with code 1, the only exit is the
\* normal one, and a run that is past setup extracted the animator,
\* released the source and bound the asset.
C11_ShortfallNotFatal ==
    resMissing # "notLoaded" =>
        /\ resMissing \in ResourceOutcomes
        /\ exitCode \in {-1, 0}
        /\ exitReason \in {"none", "normal"}
        /\ pc \in {"setup_animator", "setup_release", "setup_setAsset", "setup_sampleCount",
                   "running", "cleanup", "main_return", "exited"}
        /\ pc \in {"running", "cleanup", "main_return", "exited"} =>
              /\ InCalls("getAnimator") /\ InCalls("releaseSourceData")
              /\ InCalls("setAsset") /\ bound

\* every external resource was missing and the host loop is running
C11_Witness ==
    /\ resMissing = "allMissing"
    /\ pc = "running"
    /\ bound
    /\ frames > 0

Count(c) == Cardinality({ i \in DOMAIN calls : calls[i] = c })

\* C12: at most one asset is ever created (one parse call, one loader, no
\* retry); it is destroyed only by a cleanup step, through the loader that
\* setup created while that loader is still live, and once.
C12_OneAssetPerRun ==
    /\ Len(parseCalls) <= 1
    /\ Count("parse") <= 1
    /\ Count("createLoader") <= 1
    /\ asset \in {"live", "destroyed"} => Count("parse") = 1
    /\ rel["asset"] <= 1
    /\ rel["asset"] > 0 =>
          /\ asset = "destroyed"
          /\ InCalls("destroyAsset") /\ InCalls("fence")
          /\ cleanupCalls > 0
          /\ pc \in {"cleanup", "main_return", "exited"}
          /\ rel["loader"] = 0 => loader = "live"
          /\ "loader" \notin ub
    /\ asset = "destroyed" => rel["asset"] = 1
    /\ exitReason = "parse" => Count("parse") = 1 /\ asset = "null"

\* the one asset was destroyed during cleanup while its loader was live
C12_Witness ==
    /\ pc = "cleanup"
    /\ asset = "destroyed"
    /\ loader = "live"
    /\ Count("parse") = 1

\* the position of the first occurrence of c in the recorded calls (0: none)
Pos(c) ==
    IF InCalls(c) THEN CHOOSE i \in DOMAIN calls :
                          calls[i] = c /\ \A j \in 1 .. (i - 1) : calls[j] # c
    ELSE 0

\* C13: the asset goes parsed, resources loaded, animator extracted, source
\* released, bound, in that order and each once; after the release no parse
\* and no resource loading is issued again.
C13_StageOrder ==
    /\ Before("parse", "loadResources")
    /\ Before("loadResources", "getAnimator")
    /\ Before("getAnimator", "releaseSourceData")
    /\ Before("releaseSourceData", "setAsset")
    /\ \A c \in {"parse", "loadResources", "getAnimator", "releaseSourceData", "setAsset"} :
          Count(c) <= 1
    /\ InCalls("releaseSourceData") =>
          /\ stage = "sourceReleased"
          /\ \A i \in DOMAIN calls :
                i > Pos("releaseSourceData") => calls[i] \notin {"parse", "loadResources"}
    /\ stage = "animationReady" => InCalls("loadResources") /\ ~InCalls("releaseSourceData")
    /\ stage = "resourcesLoaded" => InCalls("parse") /\ ~InCalls("getAnimator")
    /\ pc \in {"running", "cleanup", "main_return"} => stage = "sourceReleased" /\ bound

\* frames were animated on an asset whose source was released
C13_Witness ==
    /\ stage = "sourceReleased"
    /\ bound
    /\ frames > 0
    /\ calls[Len(calls)] = "setupDone"

\* C14: for a file source the buffer is allocated with exactly the probed
\* size, handed to one parse call, and its storage released right after that
\* call, whether or not the parse succeeded: it is released when the result
\* is tested and when resources are loaded.
C14_BufferFreedAfterParse ==
    path.given =>
        /\ buffer = "allocated" =>
              /\ bufCapacity = contentSize /\ contentSize = path.size /\ contentSize > 0
              /\ pc \in {"setup_parse", "setup_free"} \/ exitReason = "read"
        /\ Count("read") <= 1
        /\ pc = "setup_free" => Len(parseCalls) = 1 /\ buffer = "allocated"
        /\ \A i \in DOMAIN calls :
              (calls[i] = "parse" /\ i < Len(calls)) => calls[i + 1] = "freeBuffer"
        /\ (InCalls("parse") /\ pc # "setup_free") =>
              buffer = "freed" /\ bufCapacity = 0 /\ Len(parseCalls) = 1
        /\ (pc = "setup_check" \/ exitReason = "parse" \/ resMissing # "notLoaded") =>
              buffer = "freed" /\ bufCapacity = 0

\* the parse of a file failed and its buffer was already released
C14_Witness ==
    /\ path.given
    /\ pc = "setup_check"
    /\ asset = "null"
    /\ buffer = "freed"
    /\ bufCapacity = 0

(* ---- option frame conditions ---- *)
\* the options getopt_long has returned and the loop has processed
Processed == SubSeq(argv, 1, optind - 1)

OfKind(seq, k) == SelectSeq(seq, LAMBDA o : o.opt = k)

LastApi(seq) ==
    LET r == SelectSeq(seq, LAMBDA o : o.opt = "a" /\ o.arg \in {"opengl", "vulkan", "metal"})
    IN  IF r = <<>> THEN DefaultBackend ELSE r[Len(r)].arg

\* C15: a step that processes --api with an unrecognized value changes
\* neither the backend nor the IBL directory nor the material source and
\* the loop goes on; after every step the backend is that of the last
\* recognized --api option processed so far, or the default.
C15_UnrecognizedApiKeepsBackend ==
    [][ /\ ( /\ pc = "args" /\ optind <= Len(argv)
             /\ argv[optind].opt = "a"
             /\ argv[optind].arg \notin {"opengl", "vulkan", "metal"} )
           => /\ backend' = backend
              /\ iblDirectory' = iblDirectory
              /\ materialSource' = materialSource
              /\ warnings' = warnings + 1
              /\ pc' = "args" /\ optind' = optind + 1
        /\ backend' = LastApi(SubSeq(argv', 1, optind' - 1))
      ]_vars

\* vulkan then an unrecognized value: the backend is still vulkan
C15_Witness ==
    /\ Len(argv) = 2
    /\ argv[1] = [opt |-> "a", arg |-> "vulkan"]
    /\ argv[2] = [opt |-> "a", arg |-> "bogus"]
    /\ optind = 3
    /\ backend = "vulkan"
    /\ warnings = 1
    /\ pc = "running"

\* C16: each field of the configuration depends only on the options of its
\* own kind, in their own order (so options of different kinds commute):
\* the backend on the --api options, the IBL directory on the --ibl options,
\* the material source on whether --ubershader occurred (once set it stays).
C16_OptionsIndependent ==
    pc # "main_defaults" =>
        /\ backend = LastApi(OfKind(Processed, "a"))
        /\ iblDirectory = (LET r == OfKind(Processed, "i")
                           IN  IF r = <<>> THEN DEFAULT_IBL ELSE r[Len(r)].arg)
        /\ materialSource = (IF OfKind(Processed, "u") = <<>>
                               THEN "GENERATE_SHADERS" ELSE "LOAD_UBERSHADERS")
        /\ warnings = Len(OfKind(Processed, "a")) -
                      Len(SelectSeq(Processed, LAMBDA o : o.opt = "a" /\ ApiRecognized(o.arg)))
        /\ title = "Filament"

\* --ibl then --api metal: the IBL directory and the backend were set, the
\* material source was not
C16_Witness ==
    /\ Len(argv) = 2
    /\ argv[1].opt = "i"
    /\ argv[2] = [opt |-> "a", arg |-> "metal"]
    /\ optind = 3
    /\ iblDirectory = "envs/other"
    /\ backend = "metal"
    /\ materialSource = "GENERATE_SHADERS"

(* ---- per-frame callbacks ---- *)
\* C17: a step of animate or gui changes none of the viewer, loader, asset
\* and registry handles (nor the materials, release counts, binding or
\* stage); title, backend, IBL directory and material source change only
\* while main sets the defaults and parses the options.
C17_CallbacksKeepOwnership ==
    [][ /\ (frames' # frames \/ guiCalls' # guiCalls) =>
              /\ UNCHANGED << viewer, loader, asset, names, materials, rel >>
              /\ UNCHANGED << bound, stage, parseCalls, calls >>
              /\ pc = "running" /\ pc' = "running"
        /\ pc \notin {"main_defaults", "args"} =>
              UNCHANGED << title, backend, iblDirectory, materialSource >>
      ]_vars

\* both callbacks ran with every handle live and ubershaders chosen
C17_Witness ==
    /\ pc = "running"
    /\ frames > 0 /\ guiCalls > 0
    /\ viewer = "live" /\ loader = "live" /\ asset = "live" /\ names = "live"
    /\ materialSource = "LOAD_UBERSHADERS"

SetupPcs ==
    {"setup_names", "setup_viewer", "setup_loader", "setup_source", "setup_read",
     "setup_parse", "setup_free", "setup_check", "setup_resources", "setup_animator",
     "setup_release", "setup_setAsset", "setup_sampleCount"}

\* C18: however much GPU work is pending, every step of setup, animate and
\* gui can be taken (they never wait); the fence wait is the one step that
\* cannot proceed while work is pending; it runs at most once per run and
\* is the first step of cleanup.
C18_FenceIsOnlyWait ==
    /\ pc \in SetupPcs => ENABLED Setup
    /\ (pc = "running" /\ frames < MaxFrames) => ENABLED Animate
    /\ (pc = "running" /\ guiCalls < MaxFrames) => ENABLED Gui
    /\ (pc = "cleanup" /\ InCalls("fence")) => ENABLED Cleanup
    /\ (pc = "cleanup" /\ ~InCalls("fence")) => (ENABLED Cleanup <=> gpuPending = 0)
    /\ Count("fence") <= 1
    /\ CleanupLog # <<>> => CleanupLog[1] = "fence"
    /\ InCalls("fence") => cleanupCalls = 1

\* animate ran while GPU work was pending, and the fence is being waited on
C18_Witness ==
    /\ pc = "cleanup"
    /\ ci = 1
    /\ gpuPending > 0
    /\ frames > 0

(* ---- handle liveness under the host contract ---- *)
\* C19: no callback uses a handle that is not live: the viewer is live all
\* through the host loop, the loader and the asset are live when cleanup
\* starts and when destroyAsset and destroyMaterials go through the loader,
\* and nothing is used after it was destroyed.
C19_HandlesLiveWhenUsed ==
    /\ ub = {}
    /\ pc = "running" => viewer = "live" /\ asset = "live" /\ bound
    /\ (frames > 0 \/ guiCalls > 0) => InCalls("newViewer") /\ InCalls("setupDone")
    /\ (pc = "cleanup" /\ ci = 1) =>
          viewer = "live" /\ loader = "live" /\ asset = "live" /\ names = "live"
    /\ (AtCleanup("destroyAsset") \/ AtCleanup("destroyMaterials")) => loader = "live"
    /\ AtCleanup("destroyAsset") => asset = "live"
    /\ AtCleanup("deleteViewer") => viewer = "live"
    /\ AtCleanup("deleteNames") => names = "live"
    /\ pc \in {"setup_source", "setup_parse"} => loader = "live"
    /\ pc \in {"setup_resources", "setup_animator", "setup_release"} => asset = "live"
    /\ pc = "setup_setAsset" => viewer = "live" /\ asset = "live"

\* cleanup is about to destroy the asset through the live loader
C19_Witness ==
    /\ AtCleanup("destroyAsset")
    /\ loader = "live"
    /\ asset = "live"
    /\ viewer = "destroyed"
    /\ frames > 0 /\ guiCalls > 0

(* ---- where the source errors are detected ---- *)
\* C20: a path that does not exist ends the process with code 1 in main,
\* before setup: nothing was allocated and the host loop never started;
\* the size-probe, short-read and parse errors are detected inside setup,
\* after registry, viewer and loader were allocated.
C20_NotFoundBeforeSetup ==
    /\ (path.given /\ ~path.exists) =>
          /\ pc \in {"main_defaults", "args", "exited"}
          /\ calls = <<>>
          /\ names = "uninit" /\ viewer = "uninit" /\ loader = "uninit"
          /\ materials = "none"
          /\ frames = 0 /\ guiCalls = 0 /\ cleanupCalls = 0
    /\ exitReason = "notfound" =>
          exitCode = 1 /\ path.given /\ ~path.exists /\ optind > Len(argv)
    /\ exitReason \in {"probe", "read", "parse"} =>
          /\ exitCode = 1
          /\ names = "live" /\ viewer = "live" /\ loader = "live"
          /\ SubSeq(calls, 1, 3) = << "newNames", "newViewer", "createLoader" >>
          /\ path.given => path.exists

\* the missing file was reported by main
C20_Witness ==
    /\ exitReason = "notfound"
    /\ exitCode = 1
    /\ pc = "exited"
    /\ names = "uninit"
====
